---- MODULE Spec2Model ----
(***************************************************************************)
(* Model of src/convert_to_parquet/processing_script.py: the JSON to       *)
(* partitioned-parquet pipeline of SeaDronesSee MOT.                       *)
(*                                                                         *)
(* A JSON record is a function from its keys to its values; a key the      *)
(* record does not carry is a key outside its DOMAIN, which is also how a  *)
(* NaN/null cell of a DataFrame row is represented.  A DataFrame is its    *)
(* column labels (a sequence: pandas allows duplicate labels) and its rows.*)
(* The file system under data/parquet is a function from paths (sequences  *)
(* of path segments) to file contents.                                     *)
(*                                                                         *)
(* Input values are well typed (integers where the schema says int32,      *)
(* strings where it says string), bbox is a 4-element array carried by all *)
(* or none of the annotation records, and load_json_file succeeds: type    *)
(* coercion failures and unreadable inputs are outside this model.         *)
(***************************************************************************)
EXTENDS Integers, Sequences, FiniteSets, TLC

\* Largest number of *.json files in data/annotations.
MaxDocs == 2

Range(s) == {s[i] : i \in 1..Len(s)}

IsUnique(s) == \A i, j \in 1..Len(s) : s[i] = s[j] => i = j

\* `sub in s` on Python strings.
Contains(s, sub) ==
    \E i \in 1..(Len(s) - Len(sub) + 1) : SubSeq(s, i, i + Len(sub) - 1) = sub

(***************************************************************************)
(* PARQUET_SCHEMAS: field name and nullability, in schema order.           *)
(***************************************************************************)
Field(n, nullable) == [name |-> n, nullable |-> nullable]

PARQUET_SCHEMAS ==
    [categories |-> << Field("id", FALSE), Field("supercategory", TRUE),
                       Field("name", TRUE) >>,
     videos |-> << Field("id", FALSE), Field("height", FALSE),
                   Field("width", FALSE), Field("name", FALSE) >>,
     images |-> << Field("id", FALSE), Field("file_name", FALSE),
                   Field("file_path", TRUE), Field("date_time", TRUE),
                   Field("height", FALSE), Field("width", FALSE),
                   Field("video_id", FALSE), Field("frame_index", TRUE),
                   Field("dataset_split", TRUE), Field("source", TRUE),
                   Field("meta", TRUE) >>,
     annotations |-> << Field("id", FALSE), Field("image_id", FALSE),
                        Field("category_id", FALSE), Field("video_id", FALSE),
                        Field("track_id", FALSE), Field("area", FALSE),
                        Field("bbox_x", FALSE), Field("bbox_y", FALSE),
                        Field("bbox_width", FALSE), Field("bbox_height", FALSE) >>,
     tracks |-> << Field("id", FALSE), Field("category_id", FALSE),
                   Field("video_id", FALSE) >>]

SchemaNames(table) ==
    [i \in 1..Len(PARQUET_SCHEMAS[table]) |-> PARQUET_SCHEMAS[table][i].name]

RequiredNames(table) ==
    {f.name : f \in {g \in Range(PARQUET_SCHEMAS[table]) : ~g.nullable}}

NullableNames(table) ==
    {f.name : f \in {g \in Range(PARQUET_SCHEMAS[table]) : g.nullable}}

(***************************************************************************)
(* pandas                                                                  *)
(***************************************************************************)
\* The keys a JSON record of the inputs may carry.  pd.DataFrame(records)
\* labels its columns in order of first appearance; every routine reorders
\* the columns by a fixed list right after, so a fixed order stands for it.
KeyOrder ==
    << "id", "supercategory", "name", "name:", "height", "width", "file_name",
       "date_time", "video_id", "frame_index", "source", "meta", "image_id",
       "category_id", "track_id", "area", "bbox", "occluded" >>

\* pd.DataFrame(list of dicts): the union of the keys as columns, one row per
\* record, NaN (no key) where a record lacks a column.
DataFrame(records) ==
    [columns |-> SelectSeq(KeyOrder,
                    LAMBDA k : \E i \in 1..Len(records) : k \in DOMAIN records[i]),
     rows |-> records]

RestrictRow(r, cols) == [k \in (DOMAIN r) \cap cols |-> r[k]]

RECURSIVE ProjectCols(_, _)
ProjectCols(cols, have) ==
    IF cols = <<>> THEN <<>>
    ELSE SelectSeq(have, LAMBDA c : c = Head(cols)) \o ProjectCols(Tail(cols), have)

\* df[cols].copy() for labels that are all present: every column carrying one
\* of the labels (duplicate labels included), in the order of cols.
Project(df, cols) ==
    [columns |-> ProjectCols(cols, df.columns),
     rows |-> [i \in 1..Len(df.rows) |-> RestrictRow(df.rows[i], Range(cols))]]

\* [col for col in cols if col in df.columns]
AvailableCols(cols, df) == SelectSeq(cols, LAMBDA c : c \in Range(df.columns))

\* df.rename(columns={from: to}): relabels the column; a label that exists
\* already is not checked, so the frame may end with two columns labelled `to`.
Rename(df, from, to) ==
    [columns |-> [i \in 1..Len(df.columns) |->
                    IF df.columns[i] = from THEN to ELSE df.columns[i]],
     rows |-> [i \in 1..Len(df.rows) |->
                 LET r == df.rows[i]
                 IN  [k \in ((DOMAIN r) \ {from}) \cup
                            (IF from \in DOMAIN r THEN {to} ELSE {}) |->
                        IF k = to /\ from \in DOMAIN r THEN r[from] ELSE r[k]]]]

\* df[col] = cells, one cell per row: << v >> for the value v, << >> for
\* None.  A new column is appended, an existing one is replaced in place.
Assign(df, col, cells) ==
    [columns |-> IF col \in Range(df.columns) THEN df.columns
                 ELSE Append(df.columns, col),
     rows |-> [i \in 1..Len(df.rows) |->
                 LET r == df.rows[i]
                 IN  [k \in ((DOMAIN r) \ {col}) \cup
                            (IF cells[i] # << >> THEN {col} ELSE {}) |->
                        IF k = col THEN cells[i][1] ELSE r[k]]]]

\* json.dumps of a nested object, as text.
json_dumps(x) == ToString(x)

\* lambda x: json.dumps(x) if x else None, on the cell of column col.  A NaN
\* cell (the record had no such key while another record had) is a float and
\* truthy, and json.dumps(NaN) is the text NaN; an empty object (no keys) is falsy.
DumpCell(df, col) ==
    Assign(df, col,
           [i \in 1..Len(df.rows) |->
               LET r == df.rows[i]
               IN  IF col \notin DOMAIN r THEN << "NaN" >>
                   ELSE IF DOMAIN r[col] # {} THEN << json_dumps(r[col]) >>
                   ELSE << >>])

Ok(df) == [exc |-> "none", df |-> df]
Raise(e) == [exc |-> e, df |-> [columns |-> <<>>, rows |-> <<>>]]

(***************************************************************************)
(* apply_pyarrow_schema                                                    *)
(***************************************************************************)
\* schema_fields - set(df.columns)
MissingCols(df, table) == Range(SchemaNames(table)) \ Range(df.columns)

\* pa.Table.from_pandas(df, schema=schema): refuses duplicate column labels
\* and a null in a field declared nullable=False (both ValueError); keeps
\* the schema's columns in the schema's order.
FromPandas(df, table) ==
    IF ~IsUnique(df.columns) THEN Raise("ValueError")
    ELSE IF \E i \in 1..Len(df.rows) :
                 \E n \in RequiredNames(table) : n \notin DOMAIN df.rows[i]
         THEN Raise("ValueError")
    ELSE Ok(Project(df, SchemaNames(table)))

\* (no validation: the frame is handed on whatever it holds)
apply_schema_unchecked(df, table) == Ok(Project(df, SchemaNames(table)))

apply_pyarrow_schema(df, table) ==
    IF MissingCols(df, table) # {} THEN Raise("ValueError")
    ELSE FromPandas(df, table)

(***************************************************************************)
(* Files and partitioned writes                                            *)
(***************************************************************************)
\* data.get(key, [])
Get(data, key) == IF key \in DOMAIN data THEN data[key] ELSE <<>>

\* open(path, 'w') and write: creates or overwrites the file at path.
write_file(files, path, content) ==
    [p \in (DOMAIN files) \cup {path} |-> IF p = path THEN content ELSE files[p]]

\* (a writer that appends to the file it finds instead of replacing it)
to_parquet_append(files, path, df) ==
    write_file(files, path,
        IF path \in DOMAIN files
        THEN [columns |-> df.columns, rows |-> files[path].rows \o df.rows]
        ELSE df)

\* df.to_parquet(path, index=False): creates or overwrites the file at path.
to_parquet(files, path, df) == write_file(files, path, df)

\* The key of a row under df.groupby(by), as a tuple.
KeyOf(r, by) == [i \in 1..Len(by) |-> r[by[i]]]

\* The groups of df.groupby(by): one per distinct combination of key values;
\* rows with a null key are left out (dropna=True).
GroupKeys(df, by) ==
    {KeyOf(r, by) : r \in {x \in Range(df.rows) : Range(by) \subseteq DOMAIN x}}

\* (the whole frame written for every group: df.to_parquet in the loop)
GroupDfWhole(df, by, key) == df

GroupDf(df, by, key) ==
    [columns |-> df.columns,
     rows |-> SelectSeq(df.rows,
                LAMBDA r : Range(by) \subseteq DOMAIN r /\ KeyOf(r, by) = key)]

\* groupby iterates the groups in ascending key order.
KeyLeq(a, b) ==
    \/ a = b
    \/ \E i \in 1..Len(a) : a[i] < b[i] /\ \A j \in 1..(i - 1) : a[j] = b[j]

ImagesPath(key) ==
    << "images.parquet", "video_id=" \o ToString(key[1]),
       "video_" \o ToString(key[1]) \o "_images.parquet" >>

AnnotationsPath(key) ==
    << "annotations.parquet", "category_id=" \o ToString(key[1]),
       "track_id=" \o ToString(key[2]),
       "category_" \o ToString(key[1]) \o "_track_" \o ToString(key[2])
           \o "_annotations.parquet" >>

TracksPath(key) ==
    << "tracks.parquet", "category_id=" \o ToString(key[1]),
       "category_" \o ToString(key[1]) \o "_tracks.parquet" >>

\* partition_dir / filename of a table's group
PartitionPath(table, key) ==
    CASE table = "images" -> ImagesPath(key)
      [] table = "annotations" -> AnnotationsPath(key)
      [] table = "tracks" -> TracksPath(key)

\* for key, group_df in df.groupby(by): mkdir; group_df.to_parquet(path).
\* Had two groups the same path, the later one in key order would remain.
WriteGroups(files, df, by, table) ==
    LET keys == GroupKeys(df, by)
        LastFor(p) == CHOOSE k \in keys :
                         /\ PartitionPath(table, k) = p
                         /\ \A k2 \in keys :
                               PartitionPath(table, k2) = p => KeyLeq(k2, k)
        Written(p) == to_parquet(files, p, GroupDf(df, by, LastFor(p)))[p]
    IN  [p \in (DOMAIN files) \cup {PartitionPath(table, k) : k \in keys} |->
            IF \E k \in keys : PartitionPath(table, k) = p
            THEN Written(p) ELSE files[p]]

\* What a routine hands back to main: the exception it raised ("none" when it
\* returned), the files afterwards, the paths it wrote, and whether it logged
\* a warning.
Returned(files, written, warned) ==
    [exc |-> "none", files |-> files, written |-> written, warned |-> warned]
Raised(e, files) ==
    [exc |-> e, files |-> files, written |-> {}, warned |-> FALSE]

\* The partition loop of a routine over the schema-applied frame.
PartitionAndWrite(files, df, by, table) ==
    IF ~(Range(by) \subseteq Range(df.columns)) THEN Raised("KeyError", files)
    ELSE Returned(WriteGroups(files, df, by, table),
                  {PartitionPath(table, k) : k \in GroupKeys(df, by)}, FALSE)

(***************************************************************************)
(* The five table routines.  X_df is the routine up to and including       *)
(* apply_pyarrow_schema; process_X adds the write(s).                      *)
(***************************************************************************)
categories_df(data) ==
    LET df == DataFrame(Get(data, "categories"))
        cols == << "id", "supercategory", "name" >>
    IN  IF ~(Range(cols) \subseteq Range(df.columns)) THEN Raise("KeyError")
        ELSE apply_pyarrow_schema(Project(df, cols), "categories")

process_categories(data, files) ==
    LET t == categories_df(data)
        path == << "categories.parquet" >>
    IN  IF t.exc # "none" THEN Raised(t.exc, files)
        ELSE Returned(to_parquet(files, path, t.df), {path}, FALSE)

videos_df(data) ==
    LET df0 == DataFrame(Get(data, "videos"))
        df1 == IF "name:" \in Range(df0.columns)
               THEN Rename(df0, "name:", "name") ELSE df0
        required_cols == << "id", "height", "width", "name" >>
    IN  apply_pyarrow_schema(Project(df1, AvailableCols(required_cols, df1)), "videos")

process_videos(data, files) ==
    LET t == videos_df(data)
        path == << "videos.parquet" >>
    IN  IF t.exc # "none" THEN Raised(t.exc, files)
        ELSE Returned(to_parquet(files, path, t.df), {path}, FALSE)

\* f"data/images/{dataset_split}/{x}"; a NaN file_name formats as nan
FilePath(dataset_split, r) ==
    "data/images/" \o dataset_split \o "/" \o
        (IF "file_name" \in DOMAIN r THEN r["file_name"] ELSE "nan")

images_df(data, dataset_split) ==
    LET df0 == DataFrame(Get(data, "images"))
        df1 == IF "source" \in Range(df0.columns) THEN DumpCell(df0, "source") ELSE df0
        df2 == IF "meta" \in Range(df1.columns) THEN DumpCell(df1, "meta") ELSE df1
        df3 == Assign(df2, "file_path",
                      [i \in 1..Len(df2.rows) |->
                          << FilePath(dataset_split, df2.rows[i]) >>])
        df4 == Assign(df3, "dataset_split",
                      [i \in 1..Len(df3.rows) |-> << dataset_split >>])
        required_cols == << "id", "file_name", "file_path", "date_time", "height",
                            "width", "video_id", "frame_index", "dataset_split",
                            "source", "meta" >>
    IN  IF "file_name" \notin Range(df2.columns) THEN Raise("KeyError")
        ELSE apply_pyarrow_schema(Project(df4, AvailableCols(required_cols, df4)),
                                  "images")

process_images(data, files, dataset_split) ==
    LET t == images_df(data, dataset_split)
    IN  IF t.exc # "none" THEN Raised(t.exc, files)
        ELSE PartitionAndWrite(files, t.df, << "video_id" >>, "images")

\* bbox -> bbox_x, bbox_y, bbox_width, bbox_height, appended after the others
ExtractBbox(df) ==
    LET names == << "bbox_x", "bbox_y", "bbox_width", "bbox_height" >>
    IN  [columns |-> SelectSeq(df.columns, LAMBDA c : c # "bbox") \o names,
         rows |-> [i \in 1..Len(df.rows) |->
                     LET r == df.rows[i]
                     IN  [k \in ((DOMAIN r) \ {"bbox"}) \cup
                                (IF "bbox" \in DOMAIN r THEN Range(names) ELSE {}) |->
                            IF k \in Range(names)
                            THEN r["bbox"][CHOOSE j \in 1..4 : names[j] = k]
                            ELSE r[k]]]]

annotations_df(data) ==
    LET df0 == DataFrame(Get(data, "annotations"))
        df1 == IF "bbox" \in Range(df0.columns) THEN ExtractBbox(df0) ELSE df0
        all_required_cols == << "id", "image_id", "category_id", "video_id",
                                "track_id", "area", "bbox_x", "bbox_y",
                                "bbox_width", "bbox_height" >>
    IN  apply_pyarrow_schema(Project(df1, AvailableCols(all_required_cols, df1)),
                             "annotations")

process_annotations(data, files) ==
    LET t == annotations_df(data)
    IN  IF t.exc # "none" THEN Raised(t.exc, files)
        ELSE PartitionAndWrite(files, t.df, << "category_id", "track_id" >>,
                               "annotations")

\* the part of process_tracks after the `if not tracks: return`
tracks_df(data) ==
    LET df == DataFrame(Get(data, "tracks"))
        cols == << "id", "category_id", "video_id" >>
    IN  IF ~(Range(cols) \subseteq Range(df.columns)) THEN Raise("KeyError")
        ELSE apply_pyarrow_schema(Project(df, cols), "tracks")

process_tracks(data, files) ==
    LET t == tracks_df(data)
    IN  IF Get(data, "tracks") = <<>> THEN Returned(files, {}, TRUE)
        ELSE IF t.exc # "none" THEN Raised(t.exc, files)
        ELSE PartitionAndWrite(files, t.df, << "category_id" >>, "tracks")

\* series.nunique(): distinct non-null values of a column of the raw list
NUnique(records, col) ==
    Cardinality({r[col] : r \in {x \in Range(records) : col \in DOMAIN x}})

StatsPath == << "processing_stats.json" >>

save_processing_stats(data, files, timestamp) ==
    write_file(files, StatsPath,
        [processing_timestamp |-> timestamp,
         categories_count |-> Len(Get(data, "categories")),
         images_count |-> Len(Get(data, "images")),
         annotations_count |-> Len(Get(data, "annotations")),
         videos_count |-> Len(Get(data, "videos")),
         tracks_count |-> Len(Get(data, "tracks")),
         licenses_count |-> Len(Get(data, "licenses")),
         info |-> Get(data, "info"),
         unique_video_ids |-> NUnique(Get(data, "videos"), "id"),
         unique_supercategories |-> NUnique(Get(data, "categories"), "supercategory")])

(***************************************************************************)
(* Input documents                                                         *)
(***************************************************************************)
Category(id, super, name) == [id |-> id, supercategory |-> super, name |-> name]
Video(id, name) == [id |-> id, height |-> 1080, width |-> 1920, name |-> name]
\* the upstream quirk: the key is "name:" instead of "name"
VideoColon(id, name) == ("name:" :> name) @@ [id |-> id, height |-> 1080, width |-> 1920]
Image(id, file_name, video_id) ==
    [id |-> id, file_name |-> file_name, height |-> 480, width |-> 640,
     video_id |-> video_id]
FullImage(id, file_name, video_id) ==
    Image(id, file_name, video_id) @@
    [date_time |-> "2020-08-26", frame_index |-> id,
     source |-> [drone |-> "mavic"], meta |-> [altitude |-> 30]]
Annotation(id, image_id, category_id, video_id, track_id) ==
    [id |-> id, image_id |-> image_id, category_id |-> category_id,
     video_id |-> video_id, track_id |-> track_id, area |-> 100,
     bbox |-> << id, 2, 3, 4 >>]
Track(id, category_id, video_id) ==
    [id |-> id, category_id |-> category_id, video_id |-> video_id]

Drop(r, key) == [k \in (DOMAIN r) \ {key} |-> r[k]]
DropAll(records, key) == [i \in 1..Len(records) |-> Drop(records[i], key)]

CategoriesA == << Category(1, "person", "swimmer"), Category(2, "boat", "boat") >>
CategoriesB == << Category(1, "person", "swimmer"), Category(3, "boat", "jetski"),
                  Category(4, "boat", "buoy") >>
VideosA == << Video(7, "v7"), Video(8, "v8") >>
VideosB == << VideoColon(8, "w8"), VideoColon(9, "w9") >>
VideosMixed == << Video(7, "v7"), VideoColon(8, "v8") >>
ImagesA == << FullImage(1, "a.jpg", 7), FullImage(2, "b.jpg", 8),
              FullImage(3, "c.jpg", 7) >>
ImagesB == << FullImage(4, "d.jpg", 8), FullImage(5, "e.jpg", 9) >>
\* no record has date_time, source or meta
ImagesPlain == << Image(1, "a.jpg", 7) @@ [frame_index |-> 0] >>
\* one record of two lacks video_id
ImagesPartial == << FullImage(1, "a.jpg", 7), Drop(FullImage(2, "b.jpg", 8), "video_id") >>
AnnotationsA == << Annotation(1, 1, 2, 7, 5), Annotation(2, 1, 2, 7, 6),
                   Annotation(3, 2, 1, 8, 5), Annotation(4, 3, 2, 7, 5) >>
AnnotationsB == << Annotation(5, 4, 1, 8, 5), Annotation(6, 5, 3, 9, 9) >>
TracksA == << Track(5, 2, 7), Track(6, 2, 7), Track(5, 1, 8) >>
TracksB == << Track(5, 1, 8), Track(9, 3, 9) >>

DocA ==
    [categories |-> CategoriesA, videos |-> VideosA, images |-> ImagesA,
     annotations |-> AnnotationsA, tracks |-> TracksA,
     info |-> [version |-> "1.0"], licenses |-> << [id |-> 1] >>]
DocB ==
    [categories |-> CategoriesB, videos |-> VideosB, images |-> ImagesB,
     annotations |-> AnnotationsB, tracks |-> TracksB]

With(doc, key, list) == [doc EXCEPT ![key] = list]

File(name, data) == [name |-> name, data |-> data]

\* The *.json files data/annotations may hold: two well-formed documents under
\* names of each kind, and documents that differ from them in one list.
InputFiles ==
    { File("instances_train.json", DocA),
      File("instances_val.json", DocB),
      File("train_val_merged.json", DocB),
      File("instances_test.json", DocA),
      File("train_no_categories.json", Drop(DocA, "categories")),
      File("val_categories_no_supercategory.json",
           With(DocB, "categories", DropAll(CategoriesB, "supercategory"))),
      File("train_categories_no_id.json",
           With(DocA, "categories", DropAll(CategoriesA, "id"))),
      File("val_videos_mixed.json", With(DocB, "videos", VideosMixed)),
      File("train_videos_empty.json", With(DocA, "videos", << >>)),
      File("val_videos_no_height.json",
           With(DocB, "videos", DropAll(VideosB, "height"))),
      File("train_images_plain.json", With(DocA, "images", ImagesPlain)),
      File("val_images_no_video_id.json",
           With(DocB, "images", DropAll(ImagesB, "video_id"))),
      File("train_images_no_file_name.json",
           With(DocA, "images", DropAll(ImagesA, "file_name"))),
      File("val_images_empty.json", With(DocB, "images", << >>)),
      File("train_images_partial.json", With(DocA, "images", ImagesPartial)),
      File("val_annotations_no_category_id.json",
           With(DocB, "annotations", DropAll(AnnotationsB, "category_id"))),
      File("train_annotations_no_bbox.json",
           With(DocA, "annotations", DropAll(AnnotationsA, "bbox"))),
      File("val_no_annotations.json", Drop(DocB, "annotations")),
      File("train_tracks_empty.json", With(DocA, "tracks", << >>)),
      File("val_no_tracks.json", Drop(DocB, "tracks")),
      File("train_tracks_no_category_id.json",
           With(DocA, "tracks", DropAll(TracksA, "category_id"))) }

\* The directory listings: up to MaxDocs files of distinct names, in any
\* order (glob promises none).
Listings ==
    UNION { {s \in [1..n -> InputFiles] : IsUnique([i \in 1..n |-> s[i].name])}
              : n \in 0..MaxDocs }

(***************************************************************************)
(* main                                                                    *)
(***************************************************************************)
VARIABLES
    annotations_dir,  \* the *.json files of data/annotations, in glob order
    argv,             \* sys.argv[1], or "" when no file name was given
    json_files,       \* the files main processes
    idx,              \* position of json_file in json_files
    pc,               \* where main is
    data,             \* the loaded document
    dataset_split,
    files,            \* data/parquet: path -> content
    now,              \* the clock datetime.now() reads
    log,              \* what this invocation did, one entry per call it made
    second,           \* TRUE in the second invocation of main
    first_files       \* data/parquet as the first invocation left it

vars == << annotations_dir, argv, json_files, idx, pc, data, dataset_split,
           files, now, log, second, first_files >>

NoData == << >>
NoFiles == << >>

\* (the two tests in the other order)
SplitOfValFirst(name) ==
    IF Contains(name, "val") \/ Contains(name, "validation") THEN "val"
    ELSE "train"

\* Determine dataset split from filename
SplitOf(name) ==
    IF Contains(name, "train") THEN "train"
    ELSE IF Contains(name, "val") \/ Contains(name, "validation") THEN "val"
    ELSE "train"

\* "train" in f.name or "val" in f.name or "validation" in f.name
IsTrainOrVal(name) ==
    Contains(name, "train") \/ Contains(name, "val") \/ Contains(name, "validation")

Init ==
    /\ \/ /\ argv = ""
          /\ annotations_dir \in Listings
       \/ /\ annotations_dir \in {s \in Listings : Len(s) = 1}
          /\ argv \in {annotations_dir[1].name, "missing.json"}
    /\ json_files = << >>
    /\ idx = 0
    /\ pc = "start"
    /\ data = NoData
    /\ dataset_split = ""
    /\ files = NoFiles
    /\ now = 0
    /\ log = << >>
    /\ second = FALSE
    /\ first_files = NoFiles

\* main up to the loop: the file named on the command line, or the train and
\* validation files of the directory; returns when there is none.
SelectInputs ==
    /\ pc = "start"
    /\ LET found == IF argv # ""
                    THEN SelectSeq(annotations_dir, LAMBDA f : f.name = argv)
                    ELSE SelectSeq(annotations_dir, LAMBDA f : IsTrainOrVal(f.name))
       IN  /\ json_files' = found
           /\ pc' = IF found = << >> THEN "returned" ELSE "loop"
    /\ idx' = 0
    /\ UNCHANGED << annotations_dir, argv, data, dataset_split, files, now, log,
                    second, first_files >>

\* for json_file in json_files: split from the name, load_json_file
StartFile ==
    /\ pc = "loop"
    /\ idx < Len(json_files)
    /\ idx' = idx + 1
    /\ dataset_split' = SplitOf(json_files[idx + 1].name)
    /\ data' = json_files[idx + 1].data
    /\ pc' = "categories"
    /\ UNCHANGED << annotations_dir, argv, json_files, files, now, log, second,
                    first_files >>

\* (a routine's failure is logged and main goes on)
AfterSwallowed(exc, next) == next

\* Where main goes after a call inside the try block: on, when it returned;
\* out of main on ValueError (re-raised); to the next file on any other
\* exception (continue).
After(exc, next) ==
    IF exc = "none" THEN next
    ELSE IF exc = "ValueError" THEN "raised"
    ELSE "loop"

Entry(op, r, before) ==
    [file |-> idx, op |-> op, exc |-> r.exc, warned |-> r.warned,
     written |-> r.written, unchanged |-> (r.files = before)]

Call(op, r, next) ==
    /\ files' = r.files
    /\ log' = Append(log, Entry(op, r, files))
    /\ pc' = After(r.exc, next)
    /\ UNCHANGED << annotations_dir, argv, json_files, idx, data, dataset_split,
                    now, second, first_files >>

ProcessCategories ==
    /\ pc = "categories"
    /\ Call("process_categories", process_categories(data, files), "videos")

ProcessVideos ==
    /\ pc = "videos"
    /\ Call("process_videos", process_videos(data, files), "images")

ProcessImages ==
    /\ pc = "images"
    /\ Call("process_images", process_images(data, files, dataset_split),
            "annotations")

ProcessAnnotations ==
    /\ pc = "annotations"
    /\ Call("process_annotations", process_annotations(data, files), "tracks")

ProcessTracks ==
    /\ pc = "tracks"
    /\ Call("process_tracks", process_tracks(data, files), "stats")

\* save_processing_stats, del data, and on to the next file
SaveProcessingStats ==
    /\ pc = "stats"
    /\ files' = save_processing_stats(data, files, now)
    /\ now' = now + 1
    /\ log' = Append(log, [file |-> idx, op |-> "save_processing_stats",
                           exc |-> "none", warned |-> FALSE,
                           written |-> {StatsPath}, unchanged |-> FALSE])
    /\ data' = NoData
    /\ pc' = "loop"
    /\ UNCHANGED << annotations_dir, argv, json_files, idx, dataset_split,
                    second, first_files >>

\* the loop is exhausted: "conversion completed successfully"
Finish ==
    /\ pc = "loop"
    /\ idx = Len(json_files)
    /\ pc' = "done"
    /\ UNCHANGED << annotations_dir, argv, json_files, idx, data, dataset_split,
                    files, now, log, second, first_files >>

Ended == pc \in {"done", "raised", "returned"}

\* The script is run once more on the same directory and output root.
RunAgain ==
    /\ Ended
    /\ ~second
    /\ second' = TRUE
    /\ first_files' = files
    /\ pc' = "start"
    /\ idx' = 0
    /\ json_files' = << >>
    /\ data' = NoData
    /\ dataset_split' = ""
    /\ log' = << >>
    /\ now' = now + 1
    /\ UNCHANGED << annotations_dir, argv, files >>

Next ==
    \/ SelectInputs
    \/ StartFile
    \/ ProcessCategories
    \/ ProcessVideos
    \/ ProcessImages
    \/ ProcessAnnotations
    \/ ProcessTracks
    \/ SaveProcessingStats
    \/ Finish
    \/ RunAgain

Spec == Init /\ [][Next]_vars

(***************************************************************************)
(* Properties                                                              *)
(***************************************************************************)
Last == log[Len(log)]

\* the document the log entry e is about
DocOf(e) == json_files[e.file].data
NameOf(e) == json_files[e.file].name

TableOf(op) ==
    CASE op = "process_categories" -> "categories"
      [] op = "process_videos" -> "videos"
      [] op = "process_images" -> "images"
      [] op = "process_annotations" -> "annotations"
      [] op = "process_tracks" -> "tracks"

TableOps ==
    {"process_categories", "process_videos", "process_images",
     "process_annotations", "process_tracks"}

ListOf(e) == Get(DocOf(e), TableOf(e.op))

Count(s, x) == Cardinality({i \in 1..Len(s) : s[i] = x})

\* rows of all files found under one entity's output path
ReadBack(fs, root) ==
    UNION {Range(fs[p].rows) : p \in {q \in DOMAIN fs : q[1] = root}}

ImagesEncodes(p, r) ==
    /\ Len(p) = 3 /\ p[1] = "images.parquet"
    /\ p[2] = "video_id=" \o ToString(r["video_id"])

AnnotationsEncodes(p, r) ==
    /\ Len(p) = 4 /\ p[1] = "annotations.parquet"
    /\ p[2] = "category_id=" \o ToString(r["category_id"])
    /\ p[3] = "track_id=" \o ToString(r["track_id"])

TracksEncodes(p, r) ==
    /\ Len(p) = 3 /\ p[1] = "tracks.parquet"
    /\ p[2] = "category_id=" \o ToString(r["category_id"])

\* the path p encodes the key value(s) of row r of the table
Encodes(table, p, r) ==
    CASE table = "images" -> ImagesEncodes(p, r)
      [] table = "annotations" -> AnnotationsEncodes(p, r)
      [] table = "tracks" -> TracksEncodes(p, r)

\* The written files partition the frame df: each row is in the file of its
\* own key, as often as in df, and in no other; no file holds anything else.
IsPartition(df, by, written, fs, table) ==
    /\ \A r \in Range(df.rows) :
          /\ Range(by) \subseteq DOMAIN r
          /\ \E p \in written : Encodes(table, p, r)
          /\ \A p \in written :
                Count(fs[p].rows, r) =
                    IF Encodes(table, p, r) THEN Count(df.rows, r) ELSE 0
    /\ \A p \in written : Range(fs[p].rows) \subseteq Range(df.rows)

\* C1: whenever the images, annotations or tracks routine has returned for a
\* list that passes the schema check, the files it wrote partition the
\* schema-applied table: each row is in exactly one of them, the one whose
\* path encodes the row's key value(s), and the files hold no other row.
C1_PartitionFilesPartitionTable ==
    (log # << >> /\ Last.exc = "none") =>
        /\ Last.op = "process_images" =>
              IsPartition(images_df(DocOf(Last), dataset_split).df,
                          << "video_id" >>, Last.written, files, "images")
        /\ Last.op = "process_annotations" =>
              IsPartition(annotations_df(DocOf(Last)).df,
                          << "category_id", "track_id" >>, Last.written, files,
                          "annotations")
        /\ (Last.op = "process_tracks" /\ ~Last.warned) =>
              IsPartition(tracks_df(DocOf(Last)).df, << "category_id" >>,
                          Last.written, files, "tracks")

C1_Witness ==
    /\ log # << >>
    /\ Last.op = "process_annotations"
    /\ Last.exc = "none"
    /\ Cardinality(Last.written) >= 3
    /\ \E p \in Last.written : Len(files[p].rows) >= 2

\* The keys of the source records a table's columns come from: the schema's
\* names, with bbox for the four bbox_* columns, and without the two image
\* columns the routine derives itself.
SourceKeys(table, names) ==
    IF table = "annotations"
    THEN (names \ {"bbox_x", "bbox_y", "bbox_width", "bbox_height"}) \cup
         (IF "bbox_x" \in names THEN {"bbox"} ELSE {})
    ELSE names \ {"file_path", "dataset_split"}

\* no record of the list carries the key
NoneHas(list, key) == \A i \in 1..Len(list) : key \notin DOMAIN list[i]

\* every record carries every required key, under the name it may have
\* ("name:" counts for "name" in a video record)
HasRequired(table, list) ==
    \A i \in 1..Len(list) :
        \A k \in SourceKeys(table, RequiredNames(table)) :
            \/ k \in DOMAIN list[i]
            \/ table = "videos" /\ k = "name" /\ "name:" \in DOMAIN list[i]

\* C2 (as claimed): when a non-empty list is complete in its required columns
\* and no record carries some nullable column, the routine returns, writes
\* its file(s), and the column is in every file and null in every row.
C2_MissingOptionalColumnIsNull ==
    \A n \in {"supercategory", "name", "date_time", "frame_index", "source", "meta"} :
        ( /\ log # << >>
          /\ Last.op \in TableOps
          /\ n \in NullableNames(TableOf(Last.op))
          /\ ListOf(Last) # << >>
          /\ HasRequired(TableOf(Last.op), ListOf(Last))
          /\ NoneHas(ListOf(Last), n) )
        => /\ Last.exc = "none"
           /\ Last.written # {}
           /\ \A p \in Last.written :
                 /\ n \in Range(files[p].columns)
                 /\ \A r \in Range(files[p].rows) : n \notin DOMAIN r

\* C3: when some record of a non-empty list lacks a required column, the
\* routine raises, and it has written nothing: the files are as before the
\* call.
C3_MissingRequiredColumnWritesNothing ==
    ( /\ log # << >>
      /\ Last.op \in TableOps
      /\ ListOf(Last) # << >>
      /\ ~HasRequired(TableOf(Last.op), ListOf(Last)) )
    => /\ Last.exc # "none"
       /\ Last.written = {}
       /\ Last.unchanged

C3_Witness ==
    /\ log # << >>
    /\ Last.op = "process_annotations"
    /\ ListOf(Last) # << >>
    /\ NoneHas(ListOf(Last), "category_id")
    /\ Last.exc = "ValueError"
    /\ \E p \in DOMAIN files : p[1] = "annotations.parquet"

\* C4 (as claimed): when the list of a table is absent or empty, the routine
\* returns with a warning and writes no file.
C4_EmptyListSkipsTable ==
    ( /\ log # << >>
      /\ Last.op \in TableOps
      /\ ListOf(Last) = << >> )
    => /\ Last.exc = "none"
       /\ Last.warned
       /\ Last.written = {}

StepOrder ==
    << "process_categories", "process_videos", "process_images",
       "process_annotations", "process_tracks", "save_processing_stats" >>

\* the log entries about file f, in order
EntriesOf(f) == SelectSeq(log, LAMBDA e : e.file = f)

\* C5: for every document the calls made are an initial part of categories,
\* videos, images, annotations, tracks, statistics, in that order, and only
\* the last call made may have failed: statistics are written only after
\* the five routines returned, and nothing is called after a failure.
C5_FixedOrderAndStopAtFailure ==
    \A f \in 1..Len(json_files) :
        LET es == EntriesOf(f)
        IN  /\ Len(es) <= Len(StepOrder)
            /\ \A k \in 1..Len(es) :
                  /\ es[k].op = StepOrder[k]
                  /\ k < Len(es) => es[k].exc = "none"
            /\ (f < idx /\ es # << >> /\ es[Len(es)].exc = "none") => Len(es) = 6

C5_Witness ==
    /\ pc = "done"
    /\ \E f \in 1..Len(json_files) :
          Len(EntriesOf(f)) = 6 /\ EntriesOf(f)[5].warned
    /\ \E f \in 1..Len(json_files) :
          Len(EntriesOf(f)) = 3 /\ EntriesOf(f)[3].exc = "KeyError"

\* the rows a document's list projects to through the schema
ProjectedRows(doc, table, split) ==
    LET t == CASE table = "categories" -> categories_df(doc)
               [] table = "videos" -> videos_df(doc)
               [] table = "images" -> images_df(doc, split)
               [] table = "annotations" -> annotations_df(doc)
               [] table = "tracks" -> tracks_df(doc)
    IN  IF Get(doc, table) = << >> \/ t.exc # "none" THEN {} ELSE Range(t.df.rows)

Tables == {"categories", "videos", "images", "annotations", "tracks"}

\* C6 (as claimed): right after a document has been processed to the end,
\* the files found under each entity's output path hold, together, exactly
\* the rows that document's list projects to, whatever was written into the
\* output root before.
C6_ReadBackEqualsProjection ==
    (log # << >> /\ Last.op = "save_processing_stats" /\ idx = Last.file) =>
        \A table \in Tables :
            ReadBack(files, table \o ".parquet")
                = ProjectedRows(DocOf(Last), table, dataset_split)

\* the table files, without the statistics record
TableFiles(fs) == [p \in (DOMAIN fs) \ {StatsPath} |-> fs[p]]

\* the statistics record without its timestamp
StatsOf(fs) ==
    IF StatsPath \in DOMAIN fs
    THEN << [fs[StatsPath] EXCEPT !.processing_timestamp = 0] >>
    ELSE << >>

\* C7: when the second run over the same inputs and output root has ended,
\* the table files and their rows are what the first run left, and so is the
\* statistics record but for its timestamp.
C7_SecondRunLeavesSameFiles ==
    (second /\ Ended) =>
        /\ TableFiles(files) = TableFiles(first_files)
        /\ StatsOf(files) = StatsOf(first_files)

C7_Witness ==
    /\ second
    /\ pc = "done"
    /\ Len(json_files) = 2
    /\ \A f \in 1..2 : Len(EntriesOf(f)) = 6
    /\ Cardinality({p \in DOMAIN files : p[1] = "images.parquet"}) >= 3
    /\ files[StatsPath].processing_timestamp # first_files[StatsPath].processing_timestamp

\* every record has id, height, width and its name under exactly one of the
\* keys "name" and "name:"
NamedVideos(list) ==
    /\ list # << >>
    /\ \A i \in 1..Len(list) :
          /\ {"id", "height", "width"} \subseteq DOMAIN list[i]
          /\ ("name" \in DOMAIN list[i]) # ("name:" \in DOMAIN list[i])

NameIn(r) == IF "name" \in DOMAIN r THEN r["name"] ELSE r["name:"]

\* C8 (as claimed): for every videos list whose records carry their name
\* under "name" or under "name:", the videos table is written and row i has
\* record i's name in its name column.
C8_NameColonProjected ==
    ( /\ log # << >>
      /\ Last.op = "process_videos"
      /\ NamedVideos(ListOf(Last)) )
    => /\ Last.exc = "none"
       /\ << "videos.parquet" >> \in Last.written
       /\ LET out == files[<< "videos.parquet" >>].rows
          IN  /\ Len(out) = Len(ListOf(Last))
              /\ \A i \in 1..Len(out) :
                    /\ "name" \in DOMAIN out[i]
                    /\ out[i]["name"] = NameIn(ListOf(Last)[i])

\* C9: every image row written for a file whose name contains train carries
\* the split train, every one for a file whose name contains val (or
\* validation) and not train carries val, and its file_path is
\* data/images/<that split>/<its file_name>.
C9_SplitStampedFromFileName ==
    ( /\ log # << >>
      /\ Last.op = "process_images"
      /\ Last.exc = "none" )
    => LET name == NameOf(Last)
           Stamped(split) ==
               \A p \in Last.written : \A r \in Range(files[p].rows) :
                   /\ r["dataset_split"] = split
                   /\ r["file_path"] = "data/images/" \o split \o "/" \o r["file_name"]
       IN  /\ Last.written # {}
           /\ Contains(name, "train") => Stamped("train")
           /\ ( /\ ~Contains(name, "train")
                /\ Contains(name, "val") \/ Contains(name, "validation") )
              => Stamped("val")

C9_Witness ==
    /\ log # << >>
    /\ Last.op = "process_images"
    /\ Last.exc = "none"
    /\ Last.file = 2
    /\ Contains(json_files[1].name, "train")
    /\ ~Contains(NameOf(Last), "train")
    /\ Contains(NameOf(Last), "val")
    /\ \E p \in DOMAIN files : \E r \in Range(files[p].rows) :
          p[1] = "images.parquet" /\ r["dataset_split"] = "train"
    /\ \E p \in Last.written : \E r \in Range(files[p].rows) :
          r["file_path"] = "data/images/val/d.jpg"

\* the list of the entry's table is non-empty and no record of it carries
\* some required column
LacksRequiredColumn(e) ==
    /\ e.op \in TableOps
    /\ ListOf(e) # << >>
    /\ \E k \in SourceKeys(TableOf(e.op), RequiredNames(TableOf(e.op))) :
          /\ NoneHas(ListOf(e), k)
          /\ ~(TableOf(e.op) = "videos" /\ k = "name" /\ ~NoneHas(ListOf(e), "name:"))

\* C10 (as claimed): once a routine has met a list without a required column,
\* nothing more is called in this run: no later document has a table or a
\* statistics record written.
C10_MissingRequiredColumnStopsBatch ==
    \A k \in 1..Len(log) :
        LacksRequiredColumn(log[k]) =>
            /\ log[k].exc # "none"
            /\ \A j \in (k + 1)..Len(log) : log[j].written = {}

====
